---- MODULE Spec2Model ----
(***************************************************************************)
(* Model of lib/index.js: recursivelyPrepare (the walk over the workspace  *)
(* that prepares every content root) and preparePullRequest (the six-stage *)
(* async.series pipeline around it).                                       *)
(*                                                                         *)
(* Strings are sequences of characters, paths are sequences of names.      *)
(* Every asynchronous call is two steps: the handler that makes the call,  *)
(* and the action in which the collaborator calls back.                    *)
(***************************************************************************)
EXTENDS Integers, Sequences, FiniteSets, TLC

VARIABLES
    toolbelt,   \* the toolbelt handed in: config, presenter, github, pull request URL
    fs,         \* the workspace on disk: directory path -> its listing
    entry,      \* which exported function was called
    pc,         \* where the called function is waiting
    opts,       \* the opts object shared by every prepare call
    rp,         \* recursivelyPrepare's locals: atLeastOne, allSuccessful, ...
    walker,     \* the walk.walk emitter: pending directories, current listing, event due
    pr,         \* preparePullRequest's locals: revisionID, transientKey, ...
    each,       \* async.forEachOf over contentIDMap: calls in flight, callback spent
    trace       \* every call made to a collaborator and every callback, in order

vars == <<toolbelt, fs, entry, pc, opts, rp, walker, pr, each, trace>>

NULL == "null"

\* ------------------------------------------------------------------ bounds

\* Directories in the workspace besides the workspace root (recursivelyPrepare alone).
MaxDirs == 2
\* Directories besides the root in the workspaces given to preparePullRequest.
MaxPipelineDirs == 1
\* Directory listings of one walk in which an entry fails to stat.
MaxWalkErrors == 1

\* ------------------------------------------------------------------ strings

S_docs == <<"d", "o", "c", "s">>
S_api == <<"a", "p", "i">>
S_dotgit == <<".", "g", "i", "t">>
S_build == <<"_", "b", "u", "i", "l", "d">>
S_site == <<"_", "s", "i", "t", "e">>
S_marker == <<"_", "d", "e", "c", "o", "n", "s", "t", ".", "j", "s", "o", "n">>
S_conf == <<"c", "o", "n", "f", ".", "p", "y">>

DirNames == {S_docs, S_api, S_dotgit, S_build, S_site}

\* toolbelt.workspacePath()
WorkspacePath == << <<"w", "s">> >>

\* Array.prototype.splice(i, 1), with i counted from 1
Splice(arr, i) == SubSeq(arr, 1, i - 1) \o SubSeq(arr, i + 1, Len(arr))

RECURSIVE CommonPrefix(_, _)
CommonPrefix(a, b) ==
    IF a # <<>> /\ b # <<>> /\ Head(a) = Head(b)
    THEN 1 + CommonPrefix(Tail(a), Tail(b))
    ELSE 0

\* path.relative(from, to)
Relative(from, to) ==
    LET c == CommonPrefix(from, to)
    IN  [i \in 1..(Len(from) - c) |-> <<".", ".">>] \o SubSeq(to, c + 1, Len(to))

\* A JavaScript object whose keys are not array indices is the sequence of its entries
\* <<key, value>> in insertion order, the order Object.keys and async.forEachOf visit.
Keys(obj) == [i \in 1..Len(obj) |-> obj[i][1]]

\* obj[key] = value: a key already present keeps its place, a new one goes last.
Assign(obj, key, value) ==
    IF \E i \in 1..Len(obj) : obj[i][1] = key
    THEN [i \in 1..Len(obj) |-> IF obj[i][1] = key THEN <<key, value>> ELSE obj[i]]
    ELSE Append(obj, <<key, value>>)

\* ------------------------------------------------------------------ workspaces

DistinctSeqs(S, n) ==
    {s \in UNION {[1..k -> S] : k \in 0..n} : \A i, j \in 1..Len(s) : i # j => s[i] # s[j]}

RECURSIVE SumLen(_, _)
SumLen(f, n) == IF n = 0 THEN 0 ELSE Len(f[n]) + SumLen(f, n - 1)

\* Trees of depth two: the root's subdirectories in readdir order, and theirs.
Shapes(n) ==
    UNION {{[top |-> t, sub |-> s] :
                s \in {x \in [1..Len(t) -> DistinctSeqs(DirNames, n - 1)] :
                          Len(t) + SumLen(x, Len(t)) <= n}} :
           t \in DistinctSeqs(DirNames, n)}

ShapeDirs(sh) ==
    {WorkspacePath}
        \cup {WorkspacePath \o <<sh.top[i]>> : i \in 1..Len(sh.top)}
        \cup UNION {{WorkspacePath \o <<sh.top[i], sh.sub[i][j]>> : j \in 1..Len(sh.sub[i])} :
                    i \in 1..Len(sh.top)}

ShapeListing(sh, p) ==
    IF p = WorkspacePath THEN sh.top
    ELSE IF Len(p) = Len(WorkspacePath) + 1
         THEN sh.sub[CHOOSE i \in 1..Len(sh.top) : sh.top[i] = p[Len(p)]]
         ELSE <<>>

\* A workspace: each directory's subdirectories and files; marked holds _deconst.json.
Workspace(sh, marked) ==
    [p \in ShapeDirs(sh) |->
        [directories |-> ShapeListing(sh, p),
         files |-> IF p \in marked THEN <<S_conf, S_marker>> ELSE <<S_conf>>]]

Workspaces(n) ==
    UNION {{Workspace(sh, marked) : marked \in SUBSET ShapeDirs(sh)} : sh \in Shapes(n)}

\* ------------------------------------------------------------------ prepare.prepare

\* The content ID base prepare reads from the root's _deconst.json: one per root.
ContentIDBase(root) == <<"id">> \o Relative(WorkspacePath, root)

\* What prepare.prepare hands its callback for a root: an error, or results.
Outcomes(root) ==
    {[err |-> TRUE, success |-> FALSE, didSomething |-> FALSE, contentIDBase |-> NULL]}
        \cup [err : {FALSE}, success : BOOLEAN, didSomething : BOOLEAN,
              contentIDBase : {ContentIDBase(root)}]

Ev(op, detail) == [op |-> op, detail |-> detail]

\* ------------------------------------------------------------------ the walker

\* The group events the walker emits for one listing, in its order.
Phases == <<"errors", "files", "directories">>

\* The first group event at or after position k with a non-empty group; else the next directory.
RECURSIVE PhaseFrom(_, _)
PhaseFrom(stats, k) ==
    IF k > Len(Phases) THEN "next"
    ELSE IF stats[Phases[k]] # <<>> THEN Phases[k]
    ELSE PhaseFrom(stats, k + 1)

\* The walker's next(): on to the following group event; after the last one the
\* directories still listed are queued for descent. next() takes no notice of an
\* argument, so callback(err) resumes the walk just as callback(null) does.
WalkerNext(w, k) ==
    LET ph == PhaseFrom(w.stats, k)
    IN  IF ph = "next"
        THEN [w EXCEPT !.phase = "next",
                       !.queue = @ \o [i \in 1..Len(w.stats.directories) |->
                                          w.curpath \o <<w.stats.directories[i]>>]]
        ELSE [w EXCEPT !.phase = ph]

NoStats == [errors |-> <<>>, files |-> <<>>, directories |-> <<>>]

IdleWalker == [queue |-> <<>>, curpath |-> <<>>, stats |-> NoStats, phase |-> "idle", errors |-> 0]

\* walk.walk(toolbelt.workspacePath(), options)
NewWalker == [IdleWalker EXCEPT !.queue = <<WorkspacePath>>, !.phase = "next"]

\* ------------------------------------------------------------------ recursivelyPrepare

NewRP == [atLeastOne |-> FALSE, allSuccessful |-> TRUE, submittedSomething |-> FALSE,
          contentIDMap |-> <<>>]

\* No opts.contentRoot is set until the first root is found.
NoOpts == [revisionID |-> <<>>, contentServiceURL |-> NULL, contentServiceAPIKey |-> NULL,
           contentRoot |-> <<>>]

Excluded(name) == (Len(name) > 0 /\ name[1] = ".") \/ name = S_build \/ name = S_site

\* for (let i = stats.length; i--; i >= 0) { ... stats.splice(i, 1) }
RECURSIVE PruneLoop(_, _)
PruneLoop(stats, i) ==
    IF i = 0 THEN stats
    ELSE PruneLoop(IF Excluded(stats[i]) THEN Splice(stats, i) ELSE stats, i - 1)

\* Mutant: the loop counts upwards, so the entry after a removed one is skipped.
RECURSIVE PruneUpLoop(_, _)
PruneUpLoop(stats, i) ==
    IF i > Len(stats) THEN stats
    ELSE PruneUpLoop(IF Excluded(stats[i]) THEN Splice(stats, i) ELSE stats, i + 1)

Prune_Forward(stats) == PruneUpLoop(stats, 1)

Prune(stats) == PruneLoop(stats, Len(stats))

HasContent(stats) == \E i \in 1..Len(stats) : stats[i] = S_marker

\* Mutant: a walk that found no content root is reported as a failure.
RPResult_NothingIsError(r) ==
    IF ~r.allSuccessful \/ ~r.atLeastOne
    THEN [err |-> "At least one preparer terminated unsuccessfully.", result |-> TRUE]
    ELSE [err |-> NULL,
          result |-> [didSomething |-> r.atLeastOne,
                      submittedSomething |-> r.submittedSomething,
                      contentIDMap |-> r.contentIDMap]]

\* The callback recursivelyPrepare is given by whoever called it directly.
RPResult(r) ==
    IF ~r.allSuccessful
    THEN [err |-> "At least one preparer terminated unsuccessfully.", result |-> TRUE]
    ELSE [err |-> NULL,
          result |-> [didSomething |-> r.atLeastOne,
                      submittedSomething |-> r.submittedSomething,
                      contentIDMap |-> r.contentIDMap]]

\* Mutant: allSuccessful is overwritten by the latest outcome instead of and-ed with it.
Prepared_LastWins(r, root, out) ==
    IF out.err
    THEN [r EXCEPT !.atLeastOne = TRUE, !.allSuccessful = FALSE]
    ELSE LET relativeRoot == Relative(WorkspacePath, root)
             r1 == [r EXCEPT !.atLeastOne = TRUE, !.allSuccessful = out.success]
         IN  IF out.didSomething
             THEN [r1 EXCEPT !.submittedSomething = TRUE,
                             !.contentIDMap = Assign(@, relativeRoot, out.contentIDBase)]
             ELSE r1

\* Mutant: the content ID is recorded whether or not the root did something.
Prepared_AlwaysRecord(r, root, out) ==
    IF out.err
    THEN [r EXCEPT !.atLeastOne = TRUE, !.allSuccessful = FALSE]
    ELSE [r EXCEPT !.atLeastOne = TRUE,
                   !.allSuccessful = r.allSuccessful /\ out.success,
                   !.submittedSomething = @ \/ out.didSomething,
                   !.contentIDMap =
                       Assign(@, Relative(WorkspacePath, root), out.contentIDBase)]

\* The prepare callback, lines 52-68
Prepared(r, root, out) ==
    IF out.err
    THEN [r EXCEPT !.atLeastOne = TRUE, !.allSuccessful = FALSE]
    ELSE LET relativeRoot == Relative(WorkspacePath, root)
             r1 == [r EXCEPT !.atLeastOne = TRUE,
                             !.allSuccessful = r.allSuccessful /\ out.success]
         IN  IF out.didSomething
             THEN [r1 EXCEPT !.submittedSomething = TRUE,
                             !.contentIDMap = Assign(@, relativeRoot, out.contentIDBase)]
             ELSE r1

\* The walker pops the next directory and lists it; an entry may fail to stat.
WalkReaddir ==
    /\ pc = "walk"
    /\ walker.phase = "next"
    /\ walker.queue # <<>>
    /\ LET n == Len(walker.queue)
           cur == walker.queue[n]
       IN  \E failed \in BOOLEAN :
             /\ failed => walker.errors < MaxWalkErrors
             /\ LET stats == [errors |-> IF failed THEN <<"EACCES">> ELSE <<>>,
                              files |-> fs[cur].files,
                              directories |-> fs[cur].directories]
                    w == [walker EXCEPT !.queue = SubSeq(walker.queue, 1, n - 1),
                                        !.curpath = cur,
                                        !.stats = stats,
                                        !.errors = IF failed THEN @ + 1 ELSE @]
                IN  walker' = WalkerNext(w, 1)
    /\ trace' = Append(trace, Ev("readdir", <<walker.queue[Len(walker.queue)]>>))
    /\ UNCHANGED <<toolbelt, fs, entry, pc, opts, rp, pr, each>>

\* Mutant: a traversal error counts as a failed preparation.
OnErrors_Fails ==
    /\ pc = "walk"
    /\ walker.phase = "errors"
    /\ trace' = Append(trace, Ev("toolbelt.error", <<walker.curpath>>))
    /\ walker' = WalkerNext(walker, 2)
    /\ rp' = [rp EXCEPT !.allSuccessful = FALSE]
    /\ UNCHANGED <<toolbelt, fs, entry, pc, opts, pr, each>>

\* walker.on('errors')
OnErrors ==
    /\ pc = "walk"
    /\ walker.phase = "errors"
    /\ trace' = Append(trace, Ev("toolbelt.error", <<walker.curpath>>))
    /\ walker' = WalkerNext(walker, 2)
    /\ UNCHANGED <<toolbelt, fs, entry, pc, opts, rp, pr, each>>

\* Mutant: the walk is resumed as soon as prepare has been called, not from its callback.
OnFiles_NoWait ==
    /\ pc = "walk"
    /\ walker.phase = "files"
    /\ IF HasContent(walker.stats.files)
       THEN /\ opts' = [opts EXCEPT !.contentRoot = walker.curpath]
            /\ trace' = Append(trace, Ev("files", <<walker.curpath>>)) \o
                          <<Ev("prepare", <<walker.curpath, opts'>>)>>
            /\ walker' = WalkerNext(walker, 3)
       ELSE /\ trace' = Append(trace, Ev("files", <<walker.curpath>>))
            /\ walker' = WalkerNext(walker, 3)
            /\ UNCHANGED opts
    /\ UNCHANGED <<toolbelt, fs, entry, pc, rp, pr, each>>

\* walker.on('files')
OnFiles ==
    /\ pc = "walk"
    /\ walker.phase = "files"
    /\ IF HasContent(walker.stats.files)
       THEN /\ opts' = [opts EXCEPT !.contentRoot = walker.curpath]
            /\ trace' = Append(trace, Ev("files", <<walker.curpath>>)) \o
                          <<Ev("prepare", <<walker.curpath, opts'>>)>>
            /\ walker' = [walker EXCEPT !.phase = "prepare"]
       ELSE /\ trace' = Append(trace, Ev("files", <<walker.curpath>>))
            /\ walker' = WalkerNext(walker, 3)
            /\ UNCHANGED opts
    /\ UNCHANGED <<toolbelt, fs, entry, pc, rp, pr, each>>

\* Mutant: a prepare error ends the walk instead of resuming it.
PrepareCallback_FailFast ==
    /\ pc = "walk"
    /\ walker.phase = "prepare"
    /\ \E out \in Outcomes(walker.curpath) :
         /\ rp' = Prepared(rp, walker.curpath, out)
         /\ trace' = Append(trace, Ev("prepared", <<walker.curpath, out>>))
         /\ walker' = IF out.err THEN [walker EXCEPT !.phase = "next", !.queue = <<>>]
                      ELSE WalkerNext(walker, 3)
    /\ UNCHANGED <<toolbelt, fs, entry, pc, opts, pr, each>>

\* Mutant: a prepare error is handed to recursivelyPrepare's own callback at once, and the
\* walk goes on.
PrepareCallback_ReportsEarly ==
    /\ pc = "walk"
    /\ walker.phase = "prepare"
    /\ \E out \in Outcomes(walker.curpath) :
         /\ rp' = Prepared(rp, walker.curpath, out)
         /\ trace' = Append(trace, Ev("prepared", <<walker.curpath, out>>))
                        \o (IF out.err
                            THEN <<Ev("callback", <<[err |-> "prepare failed", result |-> TRUE]>>)>>
                            ELSE <<>>)
    /\ walker' = WalkerNext(walker, 3)
    /\ UNCHANGED <<toolbelt, fs, entry, pc, opts, pr, each>>

\* prepare.prepare calls back
PrepareCallback ==
    /\ pc = "walk"
    /\ walker.phase = "prepare"
    /\ \E out \in Outcomes(walker.curpath) :
         /\ rp' = Prepared(rp, walker.curpath, out)
         /\ trace' = Append(trace, Ev("prepared", <<walker.curpath, out>>))
    /\ walker' = WalkerNext(walker, 3)
    /\ UNCHANGED <<toolbelt, fs, entry, pc, opts, pr, each>>

\* walker.on('directories')
OnDirectories ==
    /\ pc = "walk"
    /\ walker.phase = "directories"
    /\ trace' = Append(trace, Ev("directories", <<walker.curpath>>))
    /\ walker' = WalkerNext([walker EXCEPT !.stats.directories = Prune(@)], 4)
    /\ UNCHANGED <<toolbelt, fs, entry, pc, opts, rp, pr, each>>

\* ------------------------------------------------------------------ preparePullRequest

S_buildDash == <<"b", "u", "i", "l", "d", "-">>
S_temporaryDash == <<"t", "e", "m", "p", "o", "r", "a", "r", "y", "-">>
S_pull == <<"p", "u", "l", "l">>
S_mockSHA == <<"a", "b", "c", "1", "2", "3">>
S_gitStdout == <<"f", "0", "0", "d", "\n">>
S_goodURL == <<"h", "t", "t", "p", "s", ":", "/", "/", "h", "o", "s", "t", "/",
               "o", "w", "n", "e", "r", "/", "r", "e", "p", "o", "/",
               "p", "u", "l", "l", "/", "4", "2">>
S_badURL == <<"h", "t", "t", "p", "s", ":", "/", "/", "h", "o", "s", "t", "/",
              "o", "w", "n", "e", "r", "/", "r", "e", "p", "o", "/",
              "c", "o", "m", "m", "i", "t", "s", "/", "a", "b", "c">>

S_shortURL == <<"o", "/", "r", "/", "p", "u", "l", "l", "/", "7">>
S_slashURL == <<"h", "/", "o", "/", "r", "/", "p", "u", "l", "l", "/", "4", "2", "/">>
S_alphaURL == <<"h", "/", "o", "/", "r", "/", "p", "u", "l", "l", "/", "4", "a">>
S_bareURL == <<"/", "p", "u", "l", "l", "/", "4", "2">>

Digits == {"0", "1", "2", "3", "4", "5", "6", "7", "8", "9"}

\* The toolbelts preparePullRequest is called with. An unset mockGitSHA is the empty
\* string; stagingPresenter and github say whether the collaborator is configured.
\* Further pull request URLs are tried where the URL is looked at: with a presenter and a
\* GitHub client.
Toolbelts ==
    [mockGitSHA : {<<>>, S_mockSHA},
     stagingPresenter : BOOLEAN,
     github : BOOLEAN,
     pullRequestURL : {S_goodURL, S_badURL}]
        \cup [mockGitSHA : {S_mockSHA},
              stagingPresenter : {TRUE},
              github : {TRUE},
              pullRequestURL : {S_shortURL, S_slashURL, S_alphaURL, S_bareURL}]

\* let revisionID = null ... let didSomething = false, lines 103-108.
\* presentedURLMap is <<>> while null and <<map>> once assigned.
NoPR == [revisionID |-> <<>>, transientKey |-> NULL, contentIDMap |-> <<>>,
         presentedURLMap |-> <<>>, submittedSomething |-> FALSE, didSomething |-> FALSE]

NoEach == [inflight |-> {}, completed |-> 0, length |-> 0, spent |-> FALSE]

\* Everything a handler of the pipeline may change.
Cur == [pc |-> pc, opts |-> opts, rp |-> rp, walker |-> walker, pr |-> pr, each |-> each,
        trace |-> trace]

Become(s) ==
    /\ pc' = s.pc
    /\ opts' = s.opts
    /\ rp' = s.rp
    /\ walker' = s.walker
    /\ pr' = s.pr
    /\ each' = s.each
    /\ trace' = s.trace

Log(s, op, detail) == [s EXCEPT !.trace = Append(@, Ev(op, detail))]

Stages == <<"generateRevisionID", "issueTransientKey", "invokePreparer",
            "revokeTransientKey", "getPresentedURLMap", "commentOnGitHub">>

\* stdout.toString().replace(/\r?\n$/, '')
StripNewline(str) ==
    LET n == Len(str)
    IN  IF n >= 1 /\ str[n] = "\n"
        THEN IF n >= 2 /\ str[n - 1] = "\r" THEN SubSeq(str, 1, n - 2) ELSE SubSeq(str, 1, n - 1)
        ELSE str

\* str.split(sep)
RECURSIVE Split(_, _)
Split(str, sep) ==
    IF \A i \in 1..Len(str) : str[i] # sep THEN <<str>>
    ELSE LET k == CHOOSE i \in 1..Len(str) : str[i] = sep /\ \A j \in 1..(i - 1) : str[j] # sep
         IN  <<SubSeq(str, 1, k - 1)>> \o Split(SubSeq(str, k + 1, Len(str)), sep)

\* Mutant: the first group captures the repository without its owner.
MatchPullRequest_RepoOnly(url) ==
    LET seg == Split(url, "/")
        n == Len(seg)
    IN  IF /\ n >= 4
           /\ seg[n] # <<>>
           /\ \A i \in 1..Len(seg[n]) : seg[n][i] \in Digits
           /\ seg[n - 1] = S_pull
           /\ seg[n - 2] # <<>>
           /\ seg[n - 3] # <<>>
        THEN <<seg[n - 2], seg[n]>>
        ELSE <<>>

\* /([^/]+\/[^/]+)\/pull\/(\d+)$/.exec(url): <<>> for null, else <<m[1], m[2]>>
MatchPullRequest(url) ==
    LET seg == Split(url, "/")
        n == Len(seg)
    IN  IF /\ n >= 4
           /\ seg[n] # <<>>
           /\ \A i \in 1..Len(seg[n]) : seg[n][i] \in Digits
           /\ seg[n - 1] = S_pull
           /\ seg[n - 2] # <<>>
           /\ seg[n - 3] # <<>>
        THEN <<seg[n - 3] \o <<"/">> \o seg[n - 2], seg[n]>>
        ELSE <<>>

\* What stagingPresenter.whereis hands back on success.
Mappings == {<<>>, <<"/preview">>}

\* The final callback of async.series, lines 244-248
SeriesDone(s, err) ==
    [Log(s, "final", IF err # NULL THEN <<err>>
                     ELSE <<NULL, [didSomething |-> s.pr.didSomething]>>)
        EXCEPT !.pc = "done"]

RECURSIVE SeriesCallback(_, _, _)

\* Mutant: the mocked SHA is used as the revision ID without the 'build-' prefix.
generateRevisionID_NoPrefix(s) ==
    IF toolbelt.mockGitSHA # <<>>
    THEN [s EXCEPT !.pr.revisionID = toolbelt.mockGitSHA, !.pc = "nextTick"]
    ELSE [Log(s, "execFile", <<"git rev-parse">>) EXCEPT !.pc = "git"]

\* lines 114-139
generateRevisionID(s) ==
    IF toolbelt.mockGitSHA # <<>>
    THEN [s EXCEPT !.pr.revisionID = S_buildDash \o toolbelt.mockGitSHA, !.pc = "nextTick"]
    ELSE [Log(s, "execFile", <<"git rev-parse">>) EXCEPT !.pc = "git"]

\* lines 141-150
issueTransientKey(s) ==
    [Log(s, "issueAPIKey", <<S_temporaryDash \o s.pr.revisionID>>) EXCEPT !.pc = "issue"]

\* Mutant: the key is revoked right after the walk is started, not from its callback.
invokePreparer_RevokesAtOnce(s) ==
    [Log(s, "revokeAPIKey", <<s.pr.transientKey>>)
        EXCEPT !.opts = [revisionID |-> s.pr.revisionID,
                         contentServiceURL |-> "stagingContentServiceURL",
                         contentServiceAPIKey |-> s.pr.transientKey,
                         contentRoot |-> <<>>],
               !.rp = NewRP,
               !.walker = NewWalker,
               !.pc = "walk"]

\* lines 152-161, and recursivelyPrepare's lines 19-28
invokePreparer(s) ==
    [s EXCEPT !.opts = [revisionID |-> s.pr.revisionID,
                        contentServiceURL |-> "stagingContentServiceURL",
                        contentServiceAPIKey |-> s.pr.transientKey,
                        contentRoot |-> <<>>],
              !.rp = NewRP,
              !.walker = NewWalker,
              !.pc = "walk"]

\* recursivelyPrepare's callback in invokePreparer, lines 161-168
Aggregated(s, res) ==
    IF res.err # NULL THEN SeriesCallback(3, s, res.err)
    ELSE SeriesCallback(3,
                        [s EXCEPT !.pr.submittedSomething = res.result.submittedSomething,
                                  !.pr.didSomething = res.result.didSomething,
                                  !.pr.contentIDMap = res.result.contentIDMap],
                        NULL)

\* lines 171-174
revokeTransientKey(s) ==
    [Log(s, "revokeAPIKey", <<s.pr.transientKey>>) EXCEPT !.pc = "revoke"]

\* Mutant: the presenter is queried without checking that one is configured.
getPresentedURLMap_Unguarded(s) ==
    IF ~s.pr.submittedSomething THEN SeriesCallback(5, s, NULL)
    ELSE LET roots == Keys(s.pr.contentIDMap)
         IN  [s EXCEPT !.pr.presentedURLMap = << <<>> >>,
                       !.each = [inflight |-> {roots[i] : i \in 1..Len(roots)}, completed |-> 0,
                                 length |-> Len(roots), spent |-> FALSE],
                       !.pc = "whereis",
                       !.trace = @ \o [i \in 1..Len(roots) |->
                                         Ev("whereis", <<s.pr.contentIDMap[i][2]>>)]]

\* Mutant: the map is built and the presenter consulted although nothing was submitted.
getPresentedURLMap_Unconditional(s) ==
    IF ~toolbelt.stagingPresenter
    THEN SeriesCallback(5, Log(s, "toolbelt.error", <<"the staging URL is not configured">>), NULL)
    ELSE LET roots == Keys(s.pr.contentIDMap)
             s1 == [s EXCEPT !.pr.presentedURLMap = << <<>> >>,
                             !.each = [inflight |-> {roots[i] : i \in 1..Len(roots)}, completed |-> 0,
                                       length |-> Len(roots), spent |-> FALSE],
                             !.pc = "whereis",
                             !.trace = @ \o [i \in 1..Len(roots) |->
                                               Ev("whereis", <<s.pr.contentIDMap[i][2]>>)]]
         IN  IF roots = <<>> THEN SeriesCallback(5, [s1 EXCEPT !.each.spent = TRUE], NULL)
             ELSE s1

\* lines 176-200
getPresentedURLMap(s) ==
    IF ~toolbelt.stagingPresenter
    THEN SeriesCallback(5, Log(s, "toolbelt.error", <<"the staging URL is not configured">>), NULL)
    ELSE IF ~s.pr.submittedSomething THEN SeriesCallback(5, s, NULL)
    ELSE LET roots == Keys(s.pr.contentIDMap)
             s1 == [s EXCEPT !.pr.presentedURLMap = << <<>> >>,
                             !.each = [inflight |-> {roots[i] : i \in 1..Len(roots)}, completed |-> 0,
                                       length |-> Len(roots), spent |-> FALSE],
                             !.pc = "whereis",
                             !.trace = @ \o [i \in 1..Len(roots) |->
                                               Ev("whereis", <<s.pr.contentIDMap[i][2]>>)]]
         IN  IF roots = <<>> THEN SeriesCallback(5, [s1 EXCEPT !.each.spent = TRUE], NULL)
             ELSE s1

\* lines 209-217: one line for a single content root, a heading and a line for each root
\* otherwise
AnnouncePreviews(s) ==
    LET map == s.pr.presentedURLMap[1]
        contentRoots == Keys(map)
    IN  IF Len(contentRoots) = 1
        THEN Log(s, "toolbelt.info", <<"Your preview is available at", map[1][2]>>)
        ELSE [Log(s, "toolbelt.info", <<"Your previews are available at:">>) EXCEPT
                 !.trace = @ \o [i \in 1..Len(contentRoots) |->
                                   Ev("toolbelt.info", <<"*", contentRoots[i], map[i][2]>>)]]

\* Mutant: a pull request URL that does not parse fails the stage.
commentOnGitHub_FailOnBadURL(s) ==
    IF s.pr.presentedURLMap = <<>> THEN SeriesCallback(6, s, NULL)
    ELSE IF ~s.pr.submittedSomething THEN SeriesCallback(6, s, NULL)
    ELSE IF ~toolbelt.github
    THEN SeriesCallback(6,
                        AnnouncePreviews(Log(s, "toolbelt.error",
                                             <<"no GitHub account available">>)),
                        NULL)
    ELSE LET m == MatchPullRequest(toolbelt.pullRequestURL)
         IN  IF m = <<>>
             THEN SeriesCallback(6, Log(s, "toolbelt.error", <<"the pull request URL looks wrong">>),
                                 "the pull request URL looks wrong")
             ELSE [Log(s, "postComment", <<m[1], m[2], s.pr.presentedURLMap[1]>>)
                      EXCEPT !.pc = "post"]

\* lines 202-235
commentOnGitHub(s) ==
    IF s.pr.presentedURLMap = <<>> THEN SeriesCallback(6, s, NULL)
    ELSE IF ~s.pr.submittedSomething THEN SeriesCallback(6, s, NULL)
    ELSE IF ~toolbelt.github
    THEN SeriesCallback(6,
                        AnnouncePreviews(Log(s, "toolbelt.error",
                                             <<"no GitHub account available">>)),
                        NULL)
    ELSE LET m == MatchPullRequest(toolbelt.pullRequestURL)
         IN  IF m = <<>>
             THEN SeriesCallback(6, Log(s, "toolbelt.error", <<"the pull request URL looks wrong">>),
                                 NULL)
             ELSE [Log(s, "postComment", <<m[1], m[2], s.pr.presentedURLMap[1]>>)
                      EXCEPT !.pc = "post"]

\* async.series starting its k-th task
RunStage(k, s) ==
    LET s1 == Log(s, "start", <<Stages[k]>>)
    IN  CASE k = 1 -> generateRevisionID(s1)
          [] k = 2 -> issueTransientKey(s1)
          [] k = 3 -> invokePreparer(s1)
          [] k = 4 -> revokeTransientKey(s1)
          [] k = 5 -> getPresentedURLMap(s1)
          [] k = 6 -> commentOnGitHub(s1)

\* Mutant: a task's error does not stop the series; it is reported after the last task.
SeriesCallback_ContinueOnError(k, s, err) ==
    LET s1 == Log(s, "cb", <<Stages[k], err>>)
    IN  IF k = Len(Stages) THEN SeriesDone(s1, err)
        ELSE RunStage(k + 1, s1)

\* The callback async.series hands its k-th task, lines 237-248
SeriesCallback(k, s, err) ==
    LET s1 == Log(s, "cb", <<Stages[k], err>>)
    IN  IF err # NULL THEN SeriesDone(s1, err)
        ELSE IF k = Len(Stages) THEN SeriesDone(s1, NULL)
        ELSE RunStage(k + 1, s1)

\* ------------------------------------------------------------------ actions

NoToolbelt == [mockGitSHA |-> <<>>, stagingPresenter |-> FALSE, github |-> FALSE,
               pullRequestURL |-> <<>>]

\* recursivelyPrepare called directly
InitWalk ==
    /\ fs \in Workspaces(MaxDirs)
    /\ toolbelt = NoToolbelt
    /\ entry = "recursivelyPrepare"
    /\ pc = "idle"
    /\ opts = NoOpts
    /\ rp = NewRP
    /\ walker = IdleWalker
    /\ pr = NoPR
    /\ each = NoEach
    /\ trace = <<>>

\* preparePullRequest called
Init ==
    /\ fs \in Workspaces(MaxPipelineDirs)
    /\ toolbelt \in Toolbelts
    /\ entry = "preparePullRequest"
    /\ pc = "idle"
    /\ opts = NoOpts
    /\ rp = NewRP
    /\ walker = IdleWalker
    /\ pr = NoPR
    /\ each = NoEach
    /\ trace = <<>>

\* recursivelyPrepare(toolbelt, opts, callback), lines 19-28
RecursivelyPrepare ==
    /\ entry = "recursivelyPrepare"
    /\ pc = "idle"
    /\ pc' = "walk"
    /\ rp' = NewRP
    /\ walker' = NewWalker
    /\ UNCHANGED <<toolbelt, fs, entry, opts, pr, each, trace>>

\* walker.on('end'), lines 82-99, with the callback of whoever called recursivelyPrepare
OnEnd ==
    /\ pc = "walk"
    /\ walker.phase = "next"
    /\ walker.queue = <<>>
    /\ LET s0 == [Cur EXCEPT !.walker.phase = "ended"]
           s1 == IF ~rp.atLeastOne THEN Log(s0, "toolbelt.info", <<"No content discovered">>)
                 ELSE s0
           s2 == Log(s1, "callback", <<RPResult(rp)>>)
       IN  IF entry = "recursivelyPrepare"
           THEN Become([s2 EXCEPT !.pc = "done"])
           ELSE Become(Aggregated(s2, RPResult(rp)))
    /\ UNCHANGED <<toolbelt, fs, entry>>

\* preparePullRequest(toolbelt, callback): async.series starts its first task
PreparePullRequest ==
    /\ entry = "preparePullRequest"
    /\ pc = "idle"
    /\ Become(RunStage(1, [Cur EXCEPT !.pr = NoPR]))
    /\ UNCHANGED <<toolbelt, fs, entry>>

\* process.nextTick(() => cb(null)), line 120
NextTick ==
    /\ pc = "nextTick"
    /\ Become(SeriesCallback(1, Cur, NULL))
    /\ UNCHANGED <<toolbelt, fs, entry>>

\* Mutant: the subprocess error is logged but not handed to the series.
GitCallback_Swallow ==
    /\ pc = "git"
    /\ \E failed \in BOOLEAN :
         IF failed
         THEN Become(SeriesCallback(1,
                                    Log(Log(Cur, "execFile.cb", <<"git failed">>),
                                        "toolbelt.error", <<"unable to execute git.">>),
                                    NULL))
         ELSE Become(SeriesCallback(1,
                                    [Log(Cur, "execFile.cb", <<NULL>>) EXCEPT
                                        !.pr.revisionID =
                                            S_buildDash \o StripNewline(S_gitStdout)],
                                    NULL))
    /\ UNCHANGED <<toolbelt, fs, entry>>

\* childProcess.execFile calls back, lines 126-138
GitCallback ==
    /\ pc = "git"
    /\ \E failed \in BOOLEAN :
         IF failed
         THEN Become(SeriesCallback(1,
                                    Log(Log(Cur, "execFile.cb", <<"git failed">>),
                                        "toolbelt.error", <<"unable to execute git.">>),
                                    "git failed"))
         ELSE Become(SeriesCallback(1,
                                    [Log(Cur, "execFile.cb", <<NULL>>) EXCEPT
                                        !.pr.revisionID =
                                            S_buildDash \o StripNewline(S_gitStdout)],
                                    NULL))
    /\ UNCHANGED <<toolbelt, fs, entry>>

\* Mutant: the issuance error is dropped and the series goes on without a key.
IssueCallback_Swallow ==
    /\ pc = "issue"
    /\ \E failed \in BOOLEAN :
         IF failed
         THEN Become(SeriesCallback(2, Log(Cur, "issueAPIKey.cb", <<"issueAPIKey failed">>),
                                    NULL))
         ELSE Become(SeriesCallback(2,
                                    [Log(Cur, "issueAPIKey.cb", <<NULL, "transient-key">>)
                                        EXCEPT !.pr.transientKey = "transient-key"],
                                    NULL))
    /\ UNCHANGED <<toolbelt, fs, entry>>

\* stagingContentService.issueAPIKey calls back, lines 144-149
IssueCallback ==
    /\ pc = "issue"
    /\ \E failed \in BOOLEAN :
         IF failed
         THEN Become(SeriesCallback(2, Log(Cur, "issueAPIKey.cb", <<"issueAPIKey failed">>),
                                    "issueAPIKey failed"))
         ELSE Become(SeriesCallback(2,
                                    [Log(Cur, "issueAPIKey.cb", <<NULL, "transient-key">>)
                                        EXCEPT !.pr.transientKey = "transient-key"],
                                    NULL))
    /\ UNCHANGED <<toolbelt, fs, entry>>

\* Mutant: the revocation error is dropped.
RevokeCallback_Swallow ==
    /\ pc = "revoke"
    /\ \E err \in {NULL, "revokeAPIKey failed"} :
         Become(SeriesCallback(4, Log(Cur, "revokeAPIKey.cb", <<err>>), NULL))
    /\ UNCHANGED <<toolbelt, fs, entry>>

\* stagingContentService.revokeAPIKey calls back, line 173
RevokeCallback ==
    /\ pc = "revoke"
    /\ \E err \in {NULL, "revokeAPIKey failed"} :
         Become(SeriesCallback(4, Log(Cur, "revokeAPIKey.cb", <<err>>), err))
    /\ UNCHANGED <<toolbelt, fs, entry>>

\* Mutant: every whereis error reaches the series callback, not only the first.
WhereisCallback_NoOnce ==
    /\ \E contentRoot \in each.inflight :
         LET s0 == [Cur EXCEPT !.each.inflight = @ \ {contentRoot}]
         IN  \/ \* if (err) return cb(err)
                LET s1 == Log(s0, "whereis.cb", <<contentRoot, "whereis failed">>)
                IN  Become(SeriesCallback(5, [s1 EXCEPT !.each.spent = TRUE], "whereis failed"))
             \/ \E mappings \in Mappings :
                  LET presentedURLs == [i \in 1..Len(mappings) |->
                                           <<"stagingPresenterURL", mappings[i]>>]
                      s1 == [Log(s0, "whereis.cb", <<contentRoot, NULL>>) EXCEPT
                                !.pr.presentedURLMap[1] = Assign(@, contentRoot, presentedURLs),
                                !.each.completed = @ + 1]
                  IN  IF ~s1.each.spent /\ s1.each.completed = s1.each.length
                      THEN Become(SeriesCallback(5, [s1 EXCEPT !.each.spent = TRUE], NULL))
                      ELSE Become(s1)
    /\ UNCHANGED <<toolbelt, fs, entry>>

\* stagingPresenter.whereis calls back for one content root, lines 186-198, and
\* async.forEachOf counts it
WhereisCallback ==
    /\ \E contentRoot \in each.inflight :
         LET s0 == [Cur EXCEPT !.each.inflight = @ \ {contentRoot}]
         IN  \/ \* if (err) return cb(err)
                LET s1 == Log(s0, "whereis.cb", <<contentRoot, "whereis failed">>)
                IN  IF s1.each.spent THEN Become(s1)
                    ELSE Become(SeriesCallback(5, [s1 EXCEPT !.each.spent = TRUE],
                                               "whereis failed"))
             \/ \E mappings \in Mappings :
                  LET presentedURLs == [i \in 1..Len(mappings) |->
                                           <<"stagingPresenterURL", mappings[i]>>]
                      s1 == [Log(s0, "whereis.cb", <<contentRoot, NULL>>) EXCEPT
                                !.pr.presentedURLMap[1] = Assign(@, contentRoot, presentedURLs),
                                !.each.completed = @ + 1]
                  IN  IF ~s1.each.spent /\ s1.each.completed = s1.each.length
                      THEN Become(SeriesCallback(5, [s1 EXCEPT !.each.spent = TRUE], NULL))
                      ELSE Become(s1)
    /\ UNCHANGED <<toolbelt, fs, entry>>

\* github.postComment calls back, line 234
PostCallback ==
    /\ pc = "post"
    /\ \E err \in {NULL, "postComment failed"} :
         Become(SeriesCallback(6, Log(Cur, "postComment.cb", <<err>>), err))
    /\ UNCHANGED <<toolbelt, fs, entry>>

NextWalk ==
    \/ RecursivelyPrepare
    \/ WalkReaddir
    \/ OnErrors
    \/ OnFiles
    \/ PrepareCallback
    \/ OnDirectories
    \/ OnEnd

Next ==
    \/ PreparePullRequest
    \/ NextTick
    \/ GitCallback
    \/ IssueCallback
    \/ WalkReaddir
    \/ OnErrors
    \/ OnFiles
    \/ PrepareCallback
    \/ OnDirectories
    \/ OnEnd
    \/ RevokeCallback
    \/ WhereisCallback
    \/ PostCallback

SpecWalk == InitWalk /\ [][NextWalk]_vars

Spec == Init /\ [][Next]_vars

\* ------------------------------------------------------------------ reading the trace

Idx(op) == {i \in 1..Len(trace) : trace[i].op = op}

Count(op) == Cardinality(Idx(op))

Has(op, detail) == \E i \in Idx(op) : trace[i].detail = detail

Last(seq) == seq[Len(seq)]

\* A name the walk must not descend into.
IsPrunedName(name) == Head(name) = "." \/ name \in {S_build, S_site}

\* A directory no pruned name leads to.
Reachable(p) == \A i \in (Len(WorkspacePath) + 1)..Len(p) : ~IsPrunedName(p[i])

\* The directories of the workspace that hold _deconst.json and are not pruned.
ContentRoots ==
    {p \in DOMAIN fs : Reachable(p) /\ \E i \in 1..Len(fs[p].files) : fs[p].files[i] = S_marker}

\* The prepare calls that came back in error or with success = false.
FailedIdx == {i \in Idx("prepared") : trace[i].detail[2].err \/ ~trace[i].detail[2].success}

\* The prepare calls that came back with didSomething = true.
DidIdx == {i \in Idx("prepared") : ~trace[i].detail[2].err /\ trace[i].detail[2].didSomething}

\* The map the outcomes seen so far call for: an entry for each prepare call that did
\* something, in the order the calls came back.
ExpectedMap ==
    LET did == SelectSeq(trace, LAMBDA e : /\ e.op = "prepared"
                                           /\ ~e.detail[2].err
                                           /\ e.detail[2].didSomething)
    IN  [i \in 1..Len(did) |->
            <<Relative(WorkspacePath, did[i].detail[1]), did[i].detail[2].contentIDBase>>]

\* The entries of an object, whatever their order.
Entries(obj) == {obj[i] : i \in 1..Len(obj)}

\* ------------------------------------------------------------------ claims

\* C1: once the pipeline has finished, a key that issueAPIKey handed out has been
\* revoked by exactly one revokeAPIKey call, also when preparation reported an error.
C1_RevokedOncePerIssuedKey ==
    (pc = "done" /\ Has("issueAPIKey.cb", <<NULL, "transient-key">>))
        => Cardinality({i \in Idx("revokeAPIKey") : trace[i].detail = <<"transient-key">>}) = 1

\* C2: when recursivelyPrepare calls back, prepare.prepare has been invoked exactly once
\* for every non-pruned directory holding _deconst.json, whatever earlier calls returned.
C2_EveryRootPreparedOnce ==
    pc = "done" =>
        \A p \in ContentRoots :
            Cardinality({i \in Idx("prepare") : trace[i].detail[1] = p}) = 1

\* A walk that finished after the first of several roots failed.
C2_Witness ==
    /\ pc = "done"
    /\ Count("prepared") >= 2
    /\ \E i \in FailedIdx : \E j \in Idx("prepare") : j > i

\* C3: allSuccessful is false exactly when some prepare call failed, and the final
\* callback gets the 'At least one preparer' error then, the aggregate result otherwise.
C3_AllSuccessfulIffNoFailure ==
    /\ rp.allSuccessful = (FailedIdx = {})
    /\ (entry = "recursivelyPrepare" /\ pc = "done") =>
          LET res == Last(trace).detail[1]
          IN  /\ Last(trace).op = "callback"
              /\ IF FailedIdx # {}
                 THEN /\ res.err = "At least one preparer terminated unsuccessfully."
                      /\ res.result = TRUE
                 ELSE /\ res.err = NULL
                      /\ res.result = [didSomething |-> Idx("prepared") # {},
                                       submittedSomething |-> DidIdx # {},
                                       contentIDMap |-> ExpectedMap]

\* A walk that ended in the error although the last root prepared succeeded.
C3_Witness ==
    /\ pc = "done"
    /\ FailedIdx # {}
    /\ \E j \in Idx("prepared") : j \notin FailedIdx /\ \A i \in FailedIdx : i < j

\* C4: at every point contentIDMap holds exactly the roots whose prepare call has come
\* back with didSomething = true, each with that outcome's contentIDBase.
C4_MapHoldsExactlyDoers ==
    /\ Entries(rp.contentIDMap) = Entries(ExpectedMap)
    /\ Len(rp.contentIDMap) = Cardinality(DidIdx)

\* One root is in the map and another, which did nothing or failed, is not.
C4_Witness ==
    /\ DidIdx # {}
    /\ Idx("prepared") \ DidIdx # {}
    /\ \E i \in Idx("prepared") \ DidIdx :
         \A k \in 1..Len(rp.contentIDMap) :
            rp.contentIDMap[k][1] # Relative(WorkspacePath, trace[i].detail[1])

\* C5: the walk never lists, reports files of, or prepares a directory reached through a
\* name that starts with '.' or is _build or _site, and never queues one for descent.
C5_PrunedNeverVisited ==
    /\ \A i \in 1..Len(trace) :
         trace[i].op \in {"readdir", "files", "directories", "prepare", "prepared"}
            => Reachable(trace[i].detail[1])
    /\ \A i \in 1..Len(walker.queue) : Reachable(walker.queue[i])

\* A finished walk of a workspace whose root lists two pruned names side by side, one of
\* them holding _deconst.json.
C5_Witness ==
    /\ pc = "done"
    /\ Has("directories", <<WorkspacePath>>)
    /\ \E i \in 1..(Len(fs[WorkspacePath].directories) - 1) :
         /\ IsPrunedName(fs[WorkspacePath].directories[i])
         /\ IsPrunedName(fs[WorkspacePath].directories[i + 1])
         /\ \E j \in {i, i + 1} :
              fs[WorkspacePath \o <<fs[WorkspacePath].directories[j]>>].files = <<S_conf, S_marker>>

\* C6: once revokeAPIKey has reported an error, the pipeline is over with that error as
\* its final callback's argument, and no whereis or postComment call was made.
C6_RevokeErrorIsFatal ==
    Has("revokeAPIKey.cb", <<"revokeAPIKey failed">>) =>
        /\ pc = "done"
        /\ Last(trace) = Ev("final", <<"revokeAPIKey failed">>)
        /\ Count("final") = 1
        /\ Count("whereis") = 0
        /\ Count("postComment") = 0

\* Revocation failed after a preparation that submitted something, with presenter and
\* GitHub client configured.
C6_Witness ==
    /\ Has("revokeAPIKey.cb", <<"revokeAPIKey failed">>)
    /\ Has("cb", <<"invokePreparer", NULL>>)
    /\ pr.submittedSomething
    /\ toolbelt.stagingPresenter
    /\ toolbelt.github

\* Every stage up to revocation succeeded and at least one root was prepared.
LocalRunSucceeded ==
    /\ Has("cb", <<"generateRevisionID", NULL>>)
    /\ Has("issueAPIKey.cb", <<NULL, "transient-key">>)
    /\ Idx("prepared") # {}
    /\ FailedIdx = {}
    /\ Has("revokeAPIKey.cb", <<NULL>>)

\* C7: without a staging presenter no whereis or postComment call is ever made, and a run
\* whose stages all succeed with a root prepared ends in (null, { didSomething: true }).
C7_NoPresenterNoNetwork ==
    ~toolbelt.stagingPresenter =>
        /\ Count("whereis") = 0
        /\ Count("postComment") = 0
        /\ LocalRunSucceeded =>
              /\ pc = "done"
              /\ Last(trace) = Ev("final", <<NULL, [didSomething |-> TRUE]>>)
              /\ Count("final") = 1

\* Such a run, with a GitHub client configured and content submitted.
C7_Witness ==
    /\ ~toolbelt.stagingPresenter
    /\ toolbelt.github
    /\ LocalRunSucceeded
    /\ pr.submittedSomething
    /\ pc = "done"

\* C8: once the git subprocess has failed, the pipeline is over with the subprocess error
\* as its final callback's argument; issueAPIKey and prepare were never called.
C8_RevisionFailureAborts ==
    Has("execFile.cb", <<"git failed">>) =>
        /\ toolbelt.mockGitSHA = <<>>
        /\ pc = "done"
        /\ Last(trace) = Ev("final", <<"git failed">>)
        /\ Count("final") = 1
        /\ Count("issueAPIKey") = 0
        /\ Count("prepare") = 0
        /\ Count("readdir") = 0

\* The subprocess failed in a workspace that holds a content root.
C8_Witness ==
    /\ Has("execFile.cb", <<"git failed">>)
    /\ ContentRoots # {}

\* C9: once issueAPIKey has reported an error, the pipeline is over with that error as its
\* final callback's argument; prepare and revokeAPIKey were never called.
C9_IssuanceFailureAborts ==
    Has("issueAPIKey.cb", <<"issueAPIKey failed">>) =>
        /\ pc = "done"
        /\ Last(trace) = Ev("final", <<"issueAPIKey failed">>)
        /\ Count("final") = 1
        /\ Count("prepare") = 0
        /\ Count("readdir") = 0
        /\ Count("revokeAPIKey") = 0

\* Issuance failed in a workspace that holds a content root.
C9_Witness ==
    /\ Has("issueAPIKey.cb", <<"issueAPIKey failed">>)
    /\ ContentRoots # {}

\* The stages whose task is running, given the positions of the trace's start and callback
\* events: started and not yet called back.
RunningAmong(S, C) ==
    {k \in 1..Len(Stages) :
        /\ \E i \in S : trace[i].detail = <<Stages[k]>>
        /\ \A i \in C : trace[i].detail[1] # Stages[k]}

\* C10: the stages start in the listed order, each at most once, each only after the one
\* before it called back without error, and at most one is running at any time.
C10_StagesInSequence ==
    LET S == Idx("start")
        C == Idx("cb")
        starts == SelectSeq(trace, LAMBDA e : e.op = "start")
    IN  /\ Len(starts) <= Len(Stages)
        /\ \A k \in 1..Len(starts) : starts[k].detail = <<Stages[k]>>
        /\ \A i \in S : \A k \in 2..Len(Stages) :
             trace[i].detail = <<Stages[k]>> =>
                /\ \E j \in C : j < i /\ trace[j].detail = <<Stages[k - 1], NULL>>
                /\ \A j \in C :
                     (j < i /\ trace[j].detail[1] = Stages[k - 1])
                        => trace[j].detail[2] = NULL
        /\ \A k \in 1..Len(Stages) :
             Cardinality({i \in C : trace[i].detail[1] = Stages[k]}) <= 1
        /\ Cardinality(RunningAmong(S, C)) <= 1

\* All six stages ran, the last one posting the comment.
C10_Witness ==
    /\ pc = "done"
    /\ Has("cb", <<"commentOnGitHub", NULL>>)
    /\ Count("postComment") = 1
    /\ Count("start") = Len(Stages)

\* The URLs that end in <owner>/<repo>/pull/<number>, with the repository name and the
\* pull request number each names.
PullRequestOf(url) ==
    CASE url = S_goodURL -> << <<"o", "w", "n", "e", "r", "/", "r", "e", "p", "o">>, <<"4", "2">> >>
      [] url = S_shortURL -> << <<"o", "/", "r">>, <<"7">> >>
      [] OTHER -> <<>>

\* The presenter resolved every entry of a map of something submitted.
PreviewResolved ==
    /\ toolbelt.stagingPresenter
    /\ DidIdx # {}
    /\ Has("cb", <<"getPresentedURLMap", NULL>>)

\* C11: with a presented URL map, something submitted, a GitHub client and a pull request
\* URL ending in <owner>/<repo>/pull/<number>, postComment is called exactly once, with
\* '<owner>/<repo>' and '<number>'.
C11_CommentPostedOnce ==
    (PreviewResolved /\ toolbelt.github /\ PullRequestOf(toolbelt.pullRequestURL) # <<>>) =>
        /\ Count("postComment") = 1
        /\ \A i \in Idx("postComment") :
             /\ trace[i].detail[1] = PullRequestOf(toolbelt.pullRequestURL)[1]
             /\ trace[i].detail[2] = PullRequestOf(toolbelt.pullRequestURL)[2]

\* The comment went to owner/repo, pull request 42, and the pipeline finished.
C11_Witness ==
    /\ pc = "done"
    /\ toolbelt.pullRequestURL = S_goodURL
    /\ \E i \in Idx("postComment") :
         /\ trace[i].detail[1] = <<"o", "w", "n", "e", "r", "/", "r", "e", "p", "o">>
         /\ trace[i].detail[2] = <<"4", "2">>

\* C12: with a GitHub client and a pull request URL that does not end in
\* <owner>/<repo>/pull/<digits>, postComment is never called, and a pipeline that got as far
\* as commentOnGitHub ends in (null, { didSomething }).
C12_BadURLSkipsComment ==
    (toolbelt.github /\ PullRequestOf(toolbelt.pullRequestURL) = <<>>) =>
        /\ Count("postComment") = 0
        /\ Has("start", <<"commentOnGitHub">>) =>
              /\ pc = "done"
              /\ Last(trace) = Ev("final", <<NULL, [didSomething |-> Idx("prepared") # {}]>>)
              /\ Count("final") = 1

\* The commits URL reached commentOnGitHub with a map to present.
C12_Witness ==
    /\ toolbelt.pullRequestURL = S_badURL
    /\ toolbelt.github
    /\ PreviewResolved
    /\ Has("toolbelt.error", <<"the pull request URL looks wrong">>)
    /\ pc = "done"

\* C13: a walk of a workspace with no _deconst.json in any visited directory makes no
\* prepare call, logs 'No content discovered', and calls back with no error and
\* { didSomething: false, submittedSomething: false, contentIDMap: {} }.
C13_NothingDiscovered ==
    (entry = "recursivelyPrepare" /\ pc = "done" /\ ContentRoots = {}) =>
        /\ Count("prepare") = 0
        /\ Has("toolbelt.info", <<"No content discovered">>)
        /\ Last(trace).op = "callback"
        /\ Last(trace).detail[1].err = NULL
        /\ Last(trace).detail[1].result =
              [didSomething |-> FALSE, submittedSomething |-> FALSE, contentIDMap |-> <<>>]

\* Such a walk, of a workspace whose only _deconst.json sits in a pruned directory.
C13_Witness ==
    /\ entry = "recursivelyPrepare"
    /\ pc = "done"
    /\ ContentRoots = {}
    /\ \E p \in DOMAIN fs : fs[p].files = <<S_conf, S_marker>>
    /\ Count("files") >= 1

\* C14: with mockGitSHA set to abc123 the revision ID is 'build-abc123', git is never run,
\* and the key is issued under the name 'temporary-build-abc123'.
C14_MockedRevision ==
    toolbelt.mockGitSHA = <<"a", "b", "c", "1", "2", "3">> =>
        /\ Count("execFile") = 0
        /\ pc # "idle" =>
              pr.revisionID = <<"b", "u", "i", "l", "d", "-", "a", "b", "c", "1", "2", "3">>
        /\ Has("cb", <<"generateRevisionID", NULL>>) =>
              /\ Count("issueAPIKey") = 1
              /\ Has("issueAPIKey", << <<"t", "e", "m", "p", "o", "r", "a", "r", "y", "-",
                                        "b", "u", "i", "l", "d", "-",
                                        "a", "b", "c", "1", "2", "3">> >>)

\* The key was issued under the mocked revision and a root was prepared with it.
C14_Witness ==
    /\ toolbelt.mockGitSHA = <<"a", "b", "c", "1", "2", "3">>
    /\ Has("issueAPIKey.cb", <<NULL, "transient-key">>)
    /\ Count("prepare") >= 1

\* C15: recursivelyPrepare's callback is invoked at most once, only by the 'end' handler,
\* after every prepare call started has called back and every root has been attempted.
C15_CallbackOnceAtEnd ==
    /\ Count("callback") <= 1
    /\ (entry = "recursivelyPrepare" /\ pc = "done") => Count("callback") = 1
    /\ Count("callback") = 1 =>
          /\ walker.phase = "ended"
          /\ walker.queue = <<>>
          /\ Count("prepare") = Count("prepared")
          /\ \A i \in Idx("callback") : \A j \in Idx("prepare") \cup Idx("prepared") : j < i
          /\ \A p \in ContentRoots : \E j \in Idx("prepared") : trace[j].detail[1] = p

\* The callback came after a prepare error and the preparation of a later root.
C15_Witness ==
    /\ Count("callback") = 1
    /\ \E i \in Idx("prepared") :
         /\ trace[i].detail[2].err
         /\ \E j \in Idx("prepare") : j > i

\* C16: a traversal error is logged and nothing more: allSuccessful follows the prepare
\* outcomes alone, every reachable directory is still listed, and a walk whose prepare calls
\* all succeed calls back with no error and the aggregate result.
C16_TraversalErrorAbsorbed ==
    /\ walker.errors = Count("toolbelt.error") + (IF walker.phase = "errors" THEN 1 ELSE 0)
    /\ Count("toolbelt.error") >= 1 =>
          /\ rp.allSuccessful = (FailedIdx = {})
          /\ (entry = "recursivelyPrepare" /\ pc = "done") =>
                /\ \A p \in DOMAIN fs : Reachable(p) => Has("readdir", <<p>>)
                /\ FailedIdx = {} =>
                      /\ Last(trace).op = "callback"
                      /\ Last(trace).detail[1].err = NULL
                      /\ Last(trace).detail[1].result =
                            [didSomething |-> Idx("prepared") # {},
                             submittedSomething |-> DidIdx # {},
                             contentIDMap |-> ExpectedMap]

\* An entry of the workspace root failed to stat, and a root found later was prepared
\* successfully.
C16_Witness ==
    /\ entry = "recursivelyPrepare"
    /\ pc = "done"
    /\ FailedIdx = {}
    /\ \E i \in Idx("toolbelt.error") :
         /\ trace[i].detail = <<WorkspacePath>>
         /\ \E j \in Idx("readdir") : j > i
         /\ \E j \in Idx("prepared") : j > i

\* The whereis calls that came back in error.
WhereisFailedIdx == {i \in Idx("whereis.cb") : trace[i].detail[2] # NULL}

\* C17: with a presenter and something submitted, getPresentedURLMap queries whereis once
\* for every entry of contentIDMap; once any whereis call has failed the pipeline is over,
\* its final callback was invoked exactly once, with the error, and postComment was not called.
C17_WhereisFailureIsFatal ==
    /\ (toolbelt.stagingPresenter /\ Has("start", <<"getPresentedURLMap">>) /\ DidIdx # {}) =>
          LET expected == ExpectedMap
              asked == Idx("whereis")
          IN  /\ Cardinality(asked) = Len(expected)
              /\ \A k \in 1..Len(expected) :
                   \E i \in asked : trace[i].detail = <<expected[k][2]>>
    /\ WhereisFailedIdx # {} =>
          /\ pc = "done"
          /\ Count("final") = 1
          /\ Has("final", <<"whereis failed">>)
          /\ Count("postComment") = 0

\* Two whereis calls failed.
C17_Witness ==
    /\ Cardinality(WhereisFailedIdx) >= 2
    /\ toolbelt.github

\* C18: after a preparation that succeeded without submitting anything, presentedURLMap
\* stays null, whereis and postComment are never called, and once revocation has succeeded
\* the pipeline ends in (null, { didSomething }).
C18_NothingSubmittedNoPreview ==
    (Has("cb", <<"invokePreparer", NULL>>) /\ DidIdx = {}) =>
        /\ pr.presentedURLMap = <<>>
        /\ Count("whereis") = 0
        /\ Count("postComment") = 0
        /\ Has("revokeAPIKey.cb", <<NULL>>) =>
              /\ pc = "done"
              /\ Last(trace) = Ev("final", <<NULL, [didSomething |-> Idx("prepared") # {}]>>)
              /\ Count("final") = 1

\* A root was prepared and did nothing, with presenter and GitHub client configured.
C18_Witness ==
    /\ pc = "done"
    /\ Has("revokeAPIKey.cb", <<NULL>>)
    /\ DidIdx = {}
    /\ Idx("prepared") # {}
    /\ toolbelt.stagingPresenter
    /\ toolbelt.github

\* The prepare calls that have not called back.
InFlight ==
    {i \in Idx("prepare") :
        \A j \in Idx("prepared") : j < i \/ trace[j].detail[1] # trace[i].detail[1]}

\* C19: at most one prepare call is in flight; while one is, opts.contentRoot is its root
\* and the walker delivers nothing else, so each call's callback directly follows its start.
C19_OnePrepareInFlight ==
    /\ Cardinality(InFlight) <= 1
    /\ \A i \in InFlight :
         /\ walker.phase = "prepare"
         /\ opts.contentRoot = trace[i].detail[1]
    /\ \A i \in Idx("prepare") :
         /\ trace[i].detail[2].contentRoot = trace[i].detail[1]
         /\ i < Len(trace) =>
               /\ trace[i + 1].op = "prepared"
               /\ trace[i + 1].detail[1] = trace[i].detail[1]

\* A second root's prepare call is in flight after the first one's has called back.
C19_Witness ==
    /\ Cardinality(InFlight) = 1
    /\ Count("prepared") >= 1
    /\ \A i \in InFlight : \A j \in Idx("prepared") : trace[j].detail[1] # trace[i].detail[1]

\* C20: every prepare call carries the issued key, starts after issueAPIKey has succeeded,
\* and has called back before revokeAPIKey is called; none starts afterwards.
C20_KeyUsedWithinLifetime ==
    /\ \A i \in Idx("prepare") :
         /\ trace[i].detail[2].contentServiceAPIKey = "transient-key"
         /\ \E j \in Idx("issueAPIKey.cb") : j < i /\ trace[j].detail = <<NULL, "transient-key">>
    /\ \A r \in Idx("revokeAPIKey") :
         /\ InFlight = {}
         /\ \A i \in Idx("prepare") :
              /\ i < r
              /\ \E j \in Idx("prepared") :
                   i < j /\ j < r /\ trace[j].detail[1] = trace[i].detail[1]

\* The key was revoked after a prepare call had used it.
C20_Witness ==
    /\ Count("revokeAPIKey") = 1
    /\ Count("prepared") >= 1
    /\ pc = "done"

====
